---- MODULE Spec2Model ----
(***************************************************************************)
(* A model of the markdown-rs block parser (src/src/parsing/parser.rs):    *)
(* the recursive-descent block grammar over a character cursor, the        *)
(* section-nesting state, the list reconstruction, and the concurrent      *)
(* import of other documents with the shared path registry and the         *)
(* WaitGroup join barrier.                                                 *)
(*                                                                         *)
(* A text is a sequence of one-character strings.  An Option is a sequence *)
(* of length at most one: <<>> is None, <<x>> is Some(x).  A Result is a   *)
(* record [ok, p, v]: the parser after the call and the value on success.  *)
(***************************************************************************)
EXTENDS Integers, Sequences, FiniteSets, TLC

VARIABLES
    fs,       \* the file system: resolved path -> content of a regular file
    paths,    \* Parser.paths, the registry shared by every parser of the tree
    tasks,    \* the parse tasks: tasks[1] is the root, the others import threads
    gen       \* the description of the input the run was started on

vars == <<fs, paths, tasks, gen>>

----------------------------------------------------------------------------
(* Tokens (tokens.rs; the lexicon is the one the specification writes its *)
(* examples in).                                                           *)

LB == "\n"
SPACE == " "
HASH == "#"
MINUS == "-"
PIPE == "|"
DOT == "."
EQ == "="
\* the fence character (written ^ here)
BACKTICK == "^"
META_OPEN == "{"
META_CLOSE == "}"
QUOTE_START == ">"
IMPORT_START == "<"
IMPORT_OPEN == "["
IMPORT_CLOSE == "]"
PHOLDER_OPEN == "["
PHOLDER_CLOSE == "]"
SLASH == "/"
QUOTES == {"'", "\""}
Digits == {"0", "1", "2", "3", "4", "5", "6", "7", "8", "9"}
LIST_SPECIAL_CHARS == {MINUS, "+", "*"} \cup Digits
SQ_CODE_BLOCK == <<BACKTICK, BACKTICK, BACKTICK>>
SQ_RULER == <<MINUS, SPACE, MINUS, SPACE, MINUS>>
SQ_PHOLDER_START == <<PHOLDER_OPEN, PHOLDER_OPEN>>
SQ_PHOLDER_STOP == <<PHOLDER_CLOSE, PHOLDER_CLOSE>>
SQ_CENTERED_START == <<PIPE, PIPE>>
SQ_IMPORT_START == <<IMPORT_START, IMPORT_OPEN>>
BLOCK_SPECIAL_CHARS ==
    << <<HASH>>, <<HASH, META_OPEN>>, <<MINUS, SPACE>>, SQ_CODE_BLOCK, <<PIPE>>,
       <<QUOTE_START>>, <<META_OPEN>>, SQ_IMPORT_START >>

\* char::is_whitespace, on the characters the inputs are written in
is_whitespace(c) == c \in {SPACE, LB}

\* the width of section_nesting, sections and section_return (u8)
U8Mod == 256

----------------------------------------------------------------------------
(* Options, results and small sequence helpers.                            *)

None == <<>>
Some(x) == <<x>>
IsSome(o) == Len(o) > 0

Ok(p, v) == [ok |-> TRUE, p |-> p, v |-> v]
Err(p) == [ok |-> FALSE, p |-> p, v |-> <<>>]

Range(s) == {s[i] : i \in 1..Len(s)}

Last(s) == s[Len(s)]

Front(s) == SubSeq(s, 1, Len(s) - 1)

RECURSIVE Flatten(_)
Flatten(ss) == IF ss = <<>> THEN <<>> ELSE Head(ss) \o Flatten(Tail(ss))

\* Bind([x \in {e} |-> body]) is body with x standing for the value of e: the
\* result of a call is computed once and named
Bind(f) == f[CHOOSE x \in DOMAIN f : TRUE]

\* every production leaves a record of the attempt: where the cursor was when
\* it was entered, where it was when it returned, whether it succeeded, the
\* placeholders it registered, the nesting, the stack of the open sections
\* and the section_return signal when it was entered and when it returned,
\* and the number of productions that had returned when it was entered
Logged(name, p0, r) ==
    [r EXCEPT !.p.log =
        Append(@, [prod |-> name, from |-> p0.index, to |-> r.p.index, ok |-> r.ok,
                   registered |-> Len(r.p.document.placeholders)
                                  - Len(p0.document.placeholders),
                   nesting_in |-> p0.section_nesting, sections_in |-> p0.sections,
                   nesting_out |-> r.p.section_nesting,
                   sections_out |-> r.p.sections,
                   signal_in |-> p0.section_return,
                   signal_out |-> r.p.section_return,
                   start |-> Len(p0.log)])]

----------------------------------------------------------------------------
(* The cursor (CharStateMachine of charstate.rs, outside parser.rs):       *)
(* index is 0-based as in the code, text[index + 1] is the                 *)
(* character under the cursor.                                             *)

\* whether next_char() returns Some
has_next(p) == p.index + 1 < Len(p.text)

\* next_char: advance, and read the character when there is one
next_char(p) ==
    IF has_next(p)
    THEN [p EXCEPT !.index = p.index + 1, !.current_char = p.text[p.index + 2]]
    ELSE [p EXCEPT !.index = p.index + 1]

skip_char(p) == next_char(p)

\* revert_to: Ok and the cursor moved back when index is inside the text
revert_ok(p, index) == index < Len(p.text)

revert_to(p, index) ==
    IF revert_ok(p, index)
    THEN [p EXCEPT !.index = index, !.current_char = p.text[index + 1]]
    ELSE p

revert_with_error(p, index) == revert_to(p, index)

check_special(p, c) == p.current_char = c

check_special_group(p, group) == p.current_char \in group

check_linebreak(p) == p.current_char = LB

RECURSIVE seek_loop(_, _)
seek_loop(p, inline) ==
    LET q == next_char(p)
    IN  IF ~has_next(p) THEN q
        ELSE IF ~is_whitespace(q.current_char) \/ (inline /\ check_linebreak(q)) THEN q
        ELSE seek_loop(q, inline)

seek_inline_whitespace(p) ==
    IF is_whitespace(p.current_char) /\ ~check_linebreak(p) THEN seek_loop(p, TRUE) ELSE p

seek_whitespace(p) ==
    IF is_whitespace(p.current_char) THEN seek_loop(p, FALSE) ELSE p

\* check_seek_inline_whitespace: the answer, and the parser after the seek
check_inline_whitespace(p) == is_whitespace(p.current_char) /\ ~check_linebreak(p)

RECURSIVE seek_until_linebreak(_)
seek_until_linebreak(p) ==
    IF check_special(p, LB) THEN skip_char(p)
    ELSE IF ~has_next(p) THEN next_char(p)
    ELSE seek_until_linebreak(next_char(p))

\* check_special_sequence: on a match the cursor rests on the last character
\* of the sequence, otherwise it is moved back to where it was
RECURSIVE match_sequence(_, _, _)
match_sequence(p, sequence, i) ==
    IF i > Len(sequence) THEN Ok(revert_to(p, p.index - 1), <<>>)
    ELSE IF p.current_char # sequence[i] \/ ~has_next(p) THEN Err(p)
    ELSE match_sequence(next_char(p), sequence, i + 1)

check_special_sequence(p, sequence) ==
    Bind([r \in {match_sequence(p, sequence, 1)} |->
        IF r.ok THEN r ELSE Err(revert_to(p, p.index))])

RECURSIVE check_special_sequence_group(_, _)
check_special_sequence_group(p, sequences) ==
    IF sequences = <<>> THEN Err(p)
    ELSE Bind([r \in {check_special_sequence(p, Head(sequences))} |->
        IF r.ok THEN r ELSE check_special_sequence_group(r.p, Tail(sequences))])

assert_special(p, c, revert_index) ==
    IF check_special(p, c) THEN Ok(p, <<>>) ELSE Err(revert_with_error(p, revert_index))

assert_special_group(p, group, revert_index) ==
    IF check_special_group(p, group) THEN Ok(p, <<>>)
    ELSE Err(revert_with_error(p, revert_index))

assert_special_sequence(p, sequence, revert_index) ==
    Bind([r \in {check_special_sequence(p, sequence)} |->
        IF r.ok THEN r ELSE Err(revert_with_error(r.p, revert_index))])

assert_special_sequence_group(p, sequences, revert_index) ==
    Bind([r \in {check_special_sequence_group(p, sequences)} |->
        IF r.ok THEN r ELSE Err(revert_with_error(r.p, revert_index))])

\* get_string_until: the characters up to one of break_at; an error when the
\* cursor is on one of break_at already or one of err_at is met
RECURSIVE string_loop(_, _, _, _)
string_loop(p, acc, break_at, err_at) ==
    IF ~has_next(p) THEN [p |-> next_char(p), s |-> acc]
    ELSE LET q == next_char(p)
         IN  IF q.current_char \in (break_at \cup err_at) THEN [p |-> q, s |-> acc]
             ELSE string_loop(q, Append(acc, q.current_char), break_at, err_at)

get_string_until(p, break_at, err_at) ==
    IF check_special_group(p, break_at) THEN Err(p)
    ELSE Bind([l \in {string_loop(p, <<p.current_char>>, break_at, err_at)} |->
        IF check_special_group(l.p, err_at) THEN Err(l.p) ELSE Ok(l.p, l.s)])

\* get_string_until_sequence: the characters up to the stop sequence, the
\* cursor left on the last character of it
RECURSIVE string_sequence_loop(_, _, _, _)
string_sequence_loop(p, acc, sequence, err_at) ==
    IF ~has_next(p) THEN [p |-> next_char(p), s |-> acc, found |-> FALSE]
    ELSE Bind([m \in {check_special_sequence(next_char(p), sequence)} |->
        IF m.ok THEN [p |-> m.p, s |-> acc, found |-> TRUE]
        ELSE IF m.p.current_char \in err_at THEN [p |-> m.p, s |-> acc, found |-> FALSE]
        ELSE string_sequence_loop(m.p, Append(acc, m.p.current_char), sequence, err_at)])

get_string_until_sequence(p, sequence, err_at) ==
    Bind([m \in {check_special_sequence(p, sequence)} |->
        IF m.ok THEN Ok(m.p, <<>>)
        ELSE Bind([l \in {string_sequence_loop(p, <<p.current_char>>, sequence, err_at)} |->
            IF l.found THEN Ok(l.p, l.s) ELSE Err(l.p)])])

----------------------------------------------------------------------------
(* Inline content (inline.rs, outside parser.rs): one inline               *)
(* element is the run of characters up to the linebreak or up to one of    *)
(* inline_break_at; it fails, the cursor unmoved, on a linebreak, on a     *)
(* break character and at the end of the text.                             *)

inline_stop(p) == {LB} \cup Range(p.inline_break_at)

parse_inline(p) ==
    IF p.index >= Len(p.text) \/ p.current_char \in inline_stop(p) THEN Err(p)
    ELSE Bind([l \in {string_loop(p, <<p.current_char>>, inline_stop(p), {})} |->
        Ok(l.p, l.s)])

\* parse_text_line: the inline elements of the line, then the linebreak
RECURSIVE text_line_loop(_, _)
text_line_loop(p, subtext) ==
    Bind([r \in {parse_inline(p)} |->
        IF ~r.ok THEN [p |-> r.p, subtext |-> subtext]
        ELSE IF ~has_next(r.p)
             THEN [p |-> next_char(r.p), subtext |-> Append(subtext, r.v)]
             ELSE text_line_loop(r.p, Append(subtext, r.v))])

parse_text_line(p) ==
    Bind([l \in {text_line_loop(p, <<>>)} |->
        IF check_linebreak(l.p)
        THEN IF has_next(l.p) THEN Ok(next_char(l.p), [kind |-> "Text", subtext |-> l.subtext])
             ELSE Err(next_char(l.p))
        ELSE Ok(l.p, [kind |-> "Text", subtext |-> l.subtext])])

parse_ruler(p) ==
    Bind([a \in {assert_special_sequence(seek_inline_whitespace(p), SQ_RULER, p.index)} |->
        IF ~a.ok THEN a
        ELSE Ok(seek_until_linebreak(a.p), [kind |-> "Ruler", subtext |-> <<>>])])

parse_centered(p) ==
    Bind([a \in {assert_special_sequence(p, SQ_CENTERED_START, p.index)} |->
        IF ~a.ok THEN a
        ELSE Bind([r \in {parse_text_line(skip_char(a.p))} |->
            IF ~r.ok THEN r ELSE Ok(r.p, [kind |-> "Centered", subtext |-> r.v.subtext])])])

parse_line(p) ==
    IF p.index > Len(p.text) THEN Err(p)
    ELSE Bind([ruler \in {parse_ruler(p)} |->
        IF ruler.ok THEN ruler
        ELSE Bind([centered \in {parse_centered(ruler.p)} |->
            IF centered.ok THEN centered
            ELSE Bind([text \in {parse_text_line(centered.p)} |->
                IF text.ok THEN text ELSE Err(text.p)])])])

\* the characters text[from..to) without the whitespace
Anchor(p, from, to) ==
    SelectSeq(SubSeq(p.text, from + 1, IF to < Len(p.text) THEN to ELSE Len(p.text)),
              LAMBDA c : ~is_whitespace(c))

parse_header(p) ==
    Bind([line \in {parse_line(p)} |->
        IF ~line.ok THEN line
        ELSE Ok(line.p, [line |-> line.v, anchor |-> Anchor(p, p.index, line.p.index),
                         size |-> 0])])

----------------------------------------------------------------------------
(* Placeholders and metadata.                                              *)

\* Document::add_placeholder (elements.rs lies outside parser.rs)
add_placeholder(p, placeholder) ==
    [p EXCEPT !.document.placeholders = Append(@, placeholder)]

\* HashMap::insert: the value of a key that is present is replaced
meta_insert(values, key, value) ==
    SelectSeq(values, LAMBDA e : e.key # key) \o <<[key |-> key, value |-> value]>>

IsDigits(s) == s # <<>> /\ \A i \in 1..Len(s) : s[i] \in Digits

\* str::parse::<i64>: an optional sign and decimal digits
IsInteger(s) ==
    IF s # <<>> /\ s[1] \in {"+", "-"} THEN IsDigits(Tail(s)) ELSE IsDigits(s)

\* str::parse::<f64>, on decimal notation: digits with one dot among them
IsFloat(s) ==
    LET u == IF s # <<>> /\ s[1] \in {"+", "-"} THEN Tail(s) ELSE s
    IN  /\ \E i \in 1..Len(u) : u[i] \in Digits
        /\ \A i \in 1..Len(u) : u[i] \in Digits \cup {DOT}
        /\ Cardinality({i \in 1..Len(u) : u[i] = DOT}) <= 1

\* str::to_lowercase, on the letters the inputs are written in
LowerOf(c) ==
    CASE c = "T" -> "t" [] c = "R" -> "r" [] c = "U" -> "u" [] c = "E" -> "e"
      [] c = "F" -> "f" [] c = "A" -> "a" [] c = "L" -> "l" [] c = "S" -> "s"
      [] OTHER -> c

to_lowercase(s) == [i \in 1..Len(s) |-> LowerOf(s[i])]

MetaValue(kind, raw) == [kind |-> kind, raw |-> raw]

\* a typing that tries the float before the integer
typed_value_FloatFirst(raw_value, quoted_string) ==
    IF quoted_string THEN MetaValue("String", raw_value)
    ELSE IF to_lowercase(raw_value) = <<"t", "r", "u", "e">> THEN MetaValue("Bool", <<"true">>)
    ELSE IF to_lowercase(raw_value) = <<"f", "a", "l", "s", "e">>
         THEN MetaValue("Bool", <<"false">>)
    ELSE IF IsFloat(raw_value) THEN MetaValue("Float", raw_value)
    ELSE MetaValue("String", raw_value)

\* the typing of a value (parse_metadata_pair, the chain of coercions)
typed_value(raw_value, quoted_string) ==
    IF quoted_string THEN MetaValue("String", raw_value)
    ELSE IF to_lowercase(raw_value) = <<"t", "r", "u", "e">> THEN MetaValue("Bool", <<"true">>)
    ELSE IF to_lowercase(raw_value) = <<"f", "a", "l", "s", "e">>
         THEN MetaValue("Bool", <<"false">>)
    ELSE IF IsInteger(raw_value) THEN MetaValue("Integer", raw_value)
    ELSE IF IsFloat(raw_value) THEN MetaValue("Float", raw_value)
    ELSE MetaValue("String", raw_value)

RECURSIVE parse_inline_metadata(_), parse_metadata_pair(_), parse_placeholder(_)
RECURSIVE metadata_loop(_, _)

\* the placeholder of parse_placeholder: its name, where it stands, and the
\* metadata that follow it when there are some
Placeholder(p, name, meta) ==
    [type |-> "Placeholder", name |-> name, at |-> p.index,
     metadata |-> IF meta.ok THEN Some(meta.v) ELSE None]

parse_placeholder(p) ==
    Logged("placeholder", p,
      Bind([a \in {assert_special_sequence(p, SQ_PHOLDER_START, p.index)} |->
        IF ~a.ok THEN a
        ELSE Bind([name \in {get_string_until_sequence(skip_char(a.p),
                                                       SQ_PHOLDER_STOP, {LB})} |->
            IF ~name.ok THEN Err(revert_with_error(name.p, p.index))
            ELSE Bind([meta \in {parse_inline_metadata(skip_char(name.p))} |->
                Ok(add_placeholder(meta.p, Placeholder(p, name.v, meta)),
                   Placeholder(p, name.v, meta))])])]))

\* the value of a pair after the placeholder was tried at p: the characters
\* up to the end of the value, quoted or not
parse_metadata_value(p, key, quoted_string) ==
    Bind([raw \in {get_string_until(IF quoted_string THEN skip_char(p) ELSE p,
                                    IF quoted_string
                                    THEN {p.current_char, META_CLOSE, LB}
                                    ELSE {META_CLOSE, LB, SPACE},
                                    {})} |->
        IF ~raw.ok THEN raw
        ELSE Ok(IF check_special_group(raw.p, QUOTES) THEN skip_char(raw.p) ELSE raw.p,
                [key |-> key, value |-> typed_value(raw.v, quoted_string)])])

parse_metadata_pair(p) ==
    Bind([name \in {get_string_until(seek_inline_whitespace(p),
                                     {META_CLOSE, EQ, SPACE, LB}, {})} |->
        IF ~name.ok THEN name
        ELSE Bind([p2 \in {seek_inline_whitespace(name.p)} |->
            IF ~check_special(p2, EQ)
            THEN Ok(p2, [key |-> name.v, value |-> MetaValue("Bool", <<"true">>)])
            ELSE Bind([ph \in {parse_placeholder(
                                   seek_inline_whitespace(skip_char(p2)))} |->
                IF ph.ok
                THEN Ok(ph.p, [key |-> name.v,
                               value |-> MetaValue("Placeholder", <<ph.v>>)])
                ELSE parse_metadata_value(ph.p, name.v,
                                          check_special_group(ph.p, QUOTES))])])])

metadata_loop(p, values) ==
    Bind([pair \in {parse_metadata_pair(p)} |->
        IF ~pair.ok THEN [p |-> pair.p, values |-> values]
        ELSE IF check_special(pair.p, META_CLOSE) \/ check_linebreak(pair.p)
             THEN [p |-> pair.p,
                   values |-> meta_insert(values, pair.v.key, pair.v.value)]
             ELSE metadata_loop(pair.p,
                                meta_insert(values, pair.v.key, pair.v.value))])

parse_inline_metadata(p) ==
    Logged("inline_metadata", p,
      Bind([a \in {assert_special(p, META_OPEN, p.index)} |->
        IF ~a.ok THEN a
        ELSE Bind([l \in {metadata_loop(skip_char(a.p), <<>>)} |->
            Bind([p2 \in {IF check_special(l.p, META_CLOSE)
                          THEN skip_char(l.p) ELSE l.p} |->
                IF Len(l.values) = 0 THEN Err(revert_with_error(p2, p.index))
                ELSE Ok(p2, l.values)])])]))

----------------------------------------------------------------------------
(* Quote, code block, table.                                               *)

\* the condition of the quote loop, evaluated left to right: the marker,
\* a next character, and inline whitespace (which is skipped) or a linebreak
quote_cond(p) ==
    IF ~check_special(p, QUOTE_START) THEN [go |-> FALSE, p |-> p]
    ELSE IF ~has_next(p) THEN [go |-> FALSE, p |-> next_char(p)]
    ELSE LET q == next_char(p)
         IN  IF check_inline_whitespace(q) THEN [go |-> TRUE, p |-> seek_inline_whitespace(q)]
             ELSE [go |-> check_special(q, LB), p |-> q]

RECURSIVE quote_loop(_, _)
quote_loop(p, text) ==
    Bind([c \in {quote_cond(p)} |->
        IF ~c.go THEN [p |-> c.p, text |-> text]
        ELSE Bind([line \in {parse_text_line(c.p)} |->
            IF ~line.ok THEN [p |-> line.p, text |-> text]
            ELSE quote_loop(line.p, IF Len(line.v.subtext) > 0
                                    THEN Append(text, line.v) ELSE text)])])

parse_quote(p) ==
    Logged("quote", p,
      Bind([meta \in {parse_inline_metadata(seek_whitespace(p))} |->
        IF check_special(meta.p, META_CLOSE) /\ ~has_next(meta.p)
        THEN Err(revert_with_error(next_char(meta.p), p.index))
        ELSE Bind([l \in {quote_loop(IF check_special(meta.p, META_CLOSE)
                                     THEN next_char(meta.p) ELSE meta.p, <<>>)} |->
            IF Len(l.text) = 0 THEN Err(revert_with_error(l.p, p.index))
            ELSE Ok(l.p, [type |-> "Quote", text |-> l.text,
                          metadata |-> IF meta.ok THEN Some(meta.v) ELSE None])])]))

parse_code_block(p) ==
    Logged("code_block", p,
      Bind([p1 \in {seek_whitespace(p)} |->
        Bind([a \in {assert_special_sequence(p1, SQ_CODE_BLOCK, p1.index)} |->
            IF ~a.ok THEN a
            ELSE Bind([language \in {get_string_until(skip_char(a.p), {LB}, {})} |->
                IF ~language.ok THEN language
                ELSE Bind([text \in {get_string_until_sequence(skip_char(language.p),
                                                               SQ_CODE_BLOCK, {})} |->
                    IF ~text.ok THEN text
                    ELSE Ok(skip_char(skip_char(text.p)),
                            [type |-> "CodeBlock", language |-> language.v,
                             code |-> text.v])])])])]))

\* one cell of a row: inline elements up to a linebreak or a pipe
RECURSIVE cell_loop(_, _)
cell_loop(p, subtext) ==
    Bind([r \in {parse_inline(p)} |->
        IF ~r.ok THEN [p |-> r.p, subtext |-> subtext]
        ELSE IF check_linebreak(r.p) \/ check_special(r.p, PIPE)
             THEN [p |-> r.p, subtext |-> Append(subtext, r.v)]
             ELSE cell_loop(r.p, Append(subtext, r.v))])

RECURSIVE row_loop(_, _)
row_loop(p, cells) ==
    Bind([c \in {cell_loop(p, <<>>)} |->
        Bind([p2 \in {IF check_special(c.p, PIPE) THEN skip_char(c.p) ELSE c.p} |->
            IF check_linebreak(p2) THEN [p |-> p2, cells |-> Append(cells, c.subtext)]
            ELSE row_loop(seek_inline_whitespace(p2), Append(cells, c.subtext))])])

\* the end of parse_row: inline_break_at is cleared and the end of the row
\* is skipped
row_end(p) ==
    IF check_special(p, PIPE)
    THEN skip_char(skip_char([p EXCEPT !.inline_break_at = <<>>]))
    ELSE skip_char([p EXCEPT !.inline_break_at = <<>>])

parse_row(p) ==
    Logged("row", p,
      Bind([a \in {assert_special(seek_inline_whitespace(p), PIPE, p.index)} |->
        IF ~a.ok THEN a
        ELSE Bind([p1 \in {skip_char(a.p)} |->
            IF check_special(p1, PIPE) THEN Err(revert_with_error(p1, p.index))
            ELSE Bind([l \in {row_loop(seek_inline_whitespace(
                                           [p1 EXCEPT !.inline_break_at = Append(@, PIPE)]),
                                       <<>>)} |->
                IF Len(l.cells) > 0 THEN Ok(row_end(l.p), l.cells)
                ELSE Err(revert_with_error(row_end(l.p), p.index))])])]))

\* the scan of the line after the header row for dashes and pipes
RECURSIVE separator_loop(_)
separator_loop(p) ==
    IF ~has_next(p) THEN next_char(p)
    ELSE Bind([q \in {seek_inline_whitespace(next_char(p))} |->
        IF ~check_special_group(q, {MINUS, PIPE}) \/ check_linebreak(q) THEN q
        ELSE separator_loop(q)])

RECURSIVE rows_loop(_, _)
rows_loop(p, rows) ==
    Bind([row \in {parse_row(p)} |->
        IF ~row.ok THEN [p |-> row.p, rows |-> rows]
        ELSE rows_loop(row.p, Append(rows, row.v))])

\* parse_table after the header row: the separator line, then the rows
table_rows(header, p1) ==
    Bind([p2 \in {separator_loop(p1)} |->
        IF ~check_linebreak(p2)
        THEN IF revert_ok(p2, p1.index)
             THEN Ok(revert_to(p2, p1.index),
                     [type |-> "Table", header |-> header.v, rows |-> <<>>])
             ELSE Err(p2)
        ELSE Bind([l \in {rows_loop(seek_whitespace(p2), <<>>)} |->
            Ok(l.p, [type |-> "Table", header |-> header.v, rows |-> l.rows])])])

parse_table(p) ==
    Logged("table", p,
      Bind([header \in {parse_row(p)} |->
        IF ~header.ok THEN header
        ELSE table_rows(header,
                        IF check_linebreak(header.p) THEN skip_char(header.p)
                        ELSE header.p)]))

----------------------------------------------------------------------------
(* Lists.                                                                  *)

\* ListItem::add_child and List::add_item (elements.rs)
add_child(item, child) == [item EXCEPT !.children = Append(@, child)]

\* parse_list_item after the marker: p1 is the cursor on the marker, p3 the
\* cursor after the marker and its dot
list_item_text(p, p1, p3) ==
    IF ~check_inline_whitespace(p3) THEN Err(revert_with_error(p3, p.index))
    ELSE Bind([p4 \in {seek_inline_whitespace(seek_inline_whitespace(p3))} |->
        IF check_special(p4, MINUS) THEN Err(revert_with_error(p4, p.index))
        ELSE Bind([line \in {parse_line(p4)} |->
            IF ~line.ok THEN line
            ELSE Ok(line.p, [text |-> line.v, level |-> p1.index - p.index,
                             ordered |-> p1.current_char \in Digits,
                             children |-> <<>>])])])

parse_list_item(p) ==
    Logged("list_item", p,
      Bind([p1 \in {seek_inline_whitespace(p)} |->
        Bind([a \in {assert_special_group(p1, LIST_SPECIAL_CHARS, p.index)} |->
            IF ~a.ok THEN a
            ELSE Bind([p2 \in {skip_char(p1)} |->
                list_item_text(p, p1, IF check_special(p2, DOT) THEN skip_char(p2)
                                      ELSE p2)])])]))

\* the inner loop of parse_list for one new item: h is list_hierarchy, items
\* the items of the list so far
RECURSIVE place_item(_, _, _)
place_item(h, items, item) ==
    IF h = <<>> THEN [h |-> <<>>, items |-> items, item |-> item]
    ELSE IF Last(h).level < item.level THEN [h |-> h, items |-> items, item |-> item]
    ELSE IF Last(h).level = item.level
         THEN IF Len(h) = 1
              THEN [h |-> <<>>, items |-> Append(items, Last(h)), item |-> item]
              ELSE [h |-> Append(Front(Front(h)), add_child(Last(Front(h)), Last(h))),
                    items |-> items, item |-> item]
    ELSE IF Len(h) = 1
         THEN place_item(<<>>, items, add_child(item, Last(h)))
         ELSE place_item(Append(Front(Front(h)), add_child(Last(Front(h)), Last(h))),
                         items, item)

RECURSIVE list_loop(_, _, _)
list_loop(p, h, items) ==
    Bind([item \in {parse_list_item(p)} |->
        IF ~item.ok THEN [p |-> item.p, h |-> h, items |-> items]
        ELSE Bind([placed \in {place_item(h, items, item.v)} |->
            list_loop(item.p, Append(placed.h, placed.item), placed.items)])])

\* the remaining items of the hierarchy are combined, the deepest first
RECURSIVE combine(_)
combine(h) ==
    IF Len(h) <= 1 THEN h
    ELSE combine(Append(Front(Front(h)), add_child(Last(Front(h)), Last(h))))

parse_list(p) ==
    Logged("list", p,
      Bind([p1 \in {seek_whitespace(p)} |->
        Bind([l \in {list_loop(p1, <<>>, <<>>)} |->
            Bind([items \in {l.items \o combine(l.h)} |->
                IF Len(items) > 0
                THEN Ok(l.p, [type |-> "List",
                              ordered |-> ~check_special_group(p1, LIST_SPECIAL_CHARS),
                              items |-> items])
                ELSE Err(revert_with_error(l.p, p.index))])])]))

----------------------------------------------------------------------------
(* Paragraph.                                                              *)

RECURSIVE paragraph_loop(_, _)

\* the check after a line of a paragraph: when a block starts at the cursor
\* the paragraph ends; the cursor is moved back to the end of the line
paragraph_check(line, c, elements) ==
    IF ~revert_ok(c.p, line.p.index)
    THEN [p |-> c.p, elements |-> elements, failed |-> TRUE]
    ELSE IF c.ok
         THEN [p |-> revert_to(c.p, line.p.index), elements |-> elements,
               failed |-> FALSE]
         ELSE paragraph_loop(revert_to(c.p, line.p.index), elements)

paragraph_loop(p, elements) ==
    Bind([line \in {parse_line(p)} |->
        IF ~line.ok THEN [p |-> line.p, elements |-> elements, failed |-> FALSE]
        ELSE paragraph_check(line,
                             check_special_sequence_group(line.p, BLOCK_SPECIAL_CHARS),
                             Append(elements, line.v))])

parse_paragraph(p) ==
    Logged("paragraph", p,
      Bind([l \in {paragraph_loop(seek_whitespace(p), <<>>)} |->
        IF ~l.failed /\ Len(l.elements) > 0
        THEN Ok(l.p, [type |-> "Paragraph", elements |-> l.elements])
        ELSE Err(l.p)]))

----------------------------------------------------------------------------
(* Imports.                                                                *)

\* Path::is_absolute
is_absolute(path) == path # <<>> /\ path[1] = SLASH

\* Path::parent, as a string: what precedes the last separator
Parent(path) ==
    LET seps == {i \in 1..Len(path) : path[i] = SLASH}
    IN  IF seps = {} THEN <<>>
        ELSE SubSeq(path, 1, (CHOOSE i \in seps : \A j \in seps : j <= i) - 1)

\* Path::exists and Path::is_file
is_file(path) == path \in DOMAIN fs

\* transform_path: an import path relative to the file of the parser
transform_path(p, path) ==
    IF is_absolute(path) THEN path
    ELSE IF IsSome(p.path) /\ is_file(p.path[1])
         THEN Parent(p.path[1]) \o <<SLASH>> \o path
         ELSE path

\* import_document that checks the registry and does not register the path
import_document_NoRegister(p, path) ==
    LET resolved == transform_path(p, path)
        attempt(res) == [path |-> resolved, res |-> res, at |-> p.index]
    IN  IF ~is_file(resolved)
        THEN Err([p EXCEPT !.imports = Append(@, attempt("file does not exist"))])
        ELSE IF resolved \in Range(p.paths)
             THEN Err([p EXCEPT !.imports = Append(@, attempt("cyclic import"))])
             ELSE Ok([p EXCEPT !.spawned = Append(@, resolved),
                               !.imports = Append(@, attempt("ok"))],
                     p.ntasks + Len(p.spawned) + 1)

\* import_document that registers the path it finds registered once more
import_document_PushOnCycle(p, path) ==
    LET resolved == transform_path(p, path)
        attempt(res) == [path |-> resolved, res |-> res, at |-> p.index]
    IN  IF ~is_file(resolved)
        THEN Err([p EXCEPT !.imports = Append(@, attempt("file does not exist"))])
        ELSE IF resolved \in Range(p.paths)
             THEN Err([p EXCEPT !.paths = Append(@, resolved),
                                !.imports = Append(@, attempt("cyclic import"))])
             ELSE Ok([p EXCEPT !.paths = Append(@, resolved),
                               !.spawned = Append(@, resolved),
                               !.imports = Append(@, attempt("ok"))],
                     p.ntasks + Len(p.spawned) + 1)

\* import_document: the check of the file, the check and the registration of
\* the path under the lock of the registry, and the spawn of the thread (the
\* thread is recorded in spawned and started by the caller's step).  The
\* anchor is named by the number of the task that will write it.
import_document(p, path) ==
    LET resolved == transform_path(p, path)
        attempt(res) == [path |-> resolved, res |-> res, at |-> p.index]
    IN  IF ~is_file(resolved)
        THEN Err([p EXCEPT !.imports = Append(@, attempt("file does not exist"))])
        ELSE IF resolved \in Range(p.paths)
             THEN Err([p EXCEPT !.imports = Append(@, attempt("cyclic import"))])
             ELSE Ok([p EXCEPT !.paths = Append(@, resolved),
                               !.spawned = Append(@, resolved),
                               !.imports = Append(@, attempt("ok"))],
                     p.ntasks + Len(p.spawned) + 1)

\* the path of an import: the characters up to the linebreak or the close
RECURSIVE import_path_loop(_, _)
import_path_loop(p, path) ==
    IF ~has_next(p) THEN [p |-> next_char(p), path |-> path]
    ELSE LET q == next_char(p)
         IN  IF check_linebreak(q) \/ check_special(q, IMPORT_CLOSE)
             THEN [p |-> q, path |-> path]
             ELSE import_path_loop(q, Append(path, q.current_char))

\* parse_import after the path: an import inside a section is handed back to
\* the top level, an import at the top level imports the document
import_at(p, p1, path) ==
    IF p1.section_nesting > 0
    THEN Err(revert_to([p1 EXCEPT !.section_return = Some(0)], p.index))
    ELSE Bind([anchor \in {import_document(seek_whitespace(p1), path)} |->
        IF anchor.ok
        THEN Ok(anchor.p, [type |-> "Import", path |-> path, anchor |-> anchor.v])
        ELSE Err(anchor.p)])

parse_import(p) ==
    Logged("import", p,
      Bind([a \in {assert_special_sequence_group(seek_whitespace(p), <<SQ_IMPORT_START>>,
                                                 p.index)} |->
        IF ~a.ok THEN a
        ELSE Bind([l \in {import_path_loop(a.p, <<>>)} |->
            IF check_linebreak(l.p) \/ l.path = <<>>
            THEN Err(revert_with_error(l.p, p.index))
            ELSE IF check_special(l.p, IMPORT_CLOSE) /\ ~has_next(l.p)
                 THEN Err(next_char(l.p))
            ELSE import_at(p, IF check_special(l.p, IMPORT_CLOSE) THEN next_char(l.p)
                              ELSE l.p,
                           l.path)])]))

----------------------------------------------------------------------------
(* Sections and blocks.                                                    *)

\* the turns of the loop that counts the markers of a header: the loop is
\* left in the first turn in which next_char finds the end of the text or a
\* character that is no marker
hash_turns(p) ==
    CHOOSE k \in 1..Len(p.text) :
        /\ p.index + k >= Len(p.text) \/ p.text[p.index + k + 1] # HASH
        /\ \A j \in 1..(k - 1) :
              p.index + j < Len(p.text) /\ p.text[p.index + j + 1] = HASH

\* the count of the markers of a header, in the width of the counter: every
\* turn calls next_char, and every turn but the last adds one to the size
count_hashes(p, size) ==
    LET k == hash_turns(p)
    IN  [p |-> IF p.index + k < Len(p.text)
               THEN [p EXCEPT !.index = p.index + k,
                              !.current_char = p.text[p.index + k + 1]]
               ELSE [p EXCEPT !.index = p.index + k,
                              !.current_char = p.text[p.index + k]],
         size |-> (size + (k - 1)) % U8Mod]

RECURSIVE parse_block(_), parse_section(_), section_loop(_, _)

\* the blocks of a section: parse_block until it fails
section_loop(p, elements) ==
    Bind([block \in {parse_block(p)} |->
        IF ~block.ok THEN [p |-> block.p, elements |-> elements]
        ELSE section_loop(block.p, Append(elements, block.v))])

\* an end of parse_section that pops the section and leaves the nesting
section_end_NoRestore(p, sections) == [p EXCEPT !.sections = sections]

\* an end of parse_section that restores the nesting and pops no section
section_end_NoPop(p, sections) ==
    [p EXCEPT !.section_nesting = IF sections # <<>> THEN Last(sections) ELSE 0]

\* the end of parse_section: the section is popped and the nesting is the
\* one of the section around it
section_end(p, sections) ==
    [p EXCEPT !.sections = sections,
              !.section_nesting = IF sections # <<>> THEN Last(sections) ELSE 0]

\* parse_section after the header was parsed: the section is entered and its
\* blocks are parsed
section_body(size, meta, header) ==
    Bind([l \in {section_loop(seek_whitespace([header.p EXCEPT
                                                  !.section_nesting = size,
                                                  !.sections = Append(@, size)]),
                              <<>>)} |->
        Ok(section_end(l.p, Front(l.p.sections)),
           [type |-> "Section",
            header |-> [header.v EXCEPT !.size = size],
            metadata |-> IF meta.ok THEN Some(meta.v) ELSE None,
            elements |-> l.elements])])

parse_section(p) ==
    Logged("section", p,
      Bind([p1 \in {seek_whitespace(p)} |->
        IF ~check_special(p1, HASH) THEN Err(revert_with_error(p1, p.index))
        ELSE Bind([c \in {count_hashes(p1, 1)} |->
            Bind([meta \in {parse_inline_metadata(c.p)} |->
                IF c.size <= meta.p.section_nesting
                THEN Err(revert_with_error(
                             [meta.p EXCEPT !.section_return = Some(c.size)], p.index))
                ELSE IF ~is_whitespace(meta.p.current_char)
                     THEN Err(revert_with_error(meta.p, p.index))
                ELSE Bind([header \in {parse_header(seek_inline_whitespace(meta.p))} |->
                    IF ~header.ok THEN Err(header.p)
                    ELSE section_body(c.size, meta, header)])])])]))

\* the alternatives after the section with no look at the signal behind the
\* import
block_alternatives_NoSignal(p) ==
    Bind([list \in {parse_list(p)} |->
    IF list.ok THEN list ELSE
    Bind([table \in {parse_table(list.p)} |->
    IF table.ok THEN table ELSE
    Bind([code_block \in {parse_code_block(table.p)} |->
    IF code_block.ok THEN code_block ELSE
    Bind([quote \in {parse_quote(code_block.p)} |->
    IF quote.ok THEN quote ELSE
    Bind([import \in {parse_import(quote.p)} |->
    IF import.ok THEN import ELSE
    Bind([pholder \in {parse_placeholder(import.p)} |->
    IF pholder.ok THEN pholder ELSE
    Bind([paragraph \in {parse_paragraph(pholder.p)} |->
    IF paragraph.ok THEN paragraph ELSE Err(paragraph.p)])])])])])])])

\* the alternatives of parse_block after the section, in their order
block_alternatives(p) ==
    Bind([list \in {parse_list(p)} |->
    IF list.ok THEN list ELSE
    Bind([table \in {parse_table(list.p)} |->
    IF table.ok THEN table ELSE
    Bind([code_block \in {parse_code_block(table.p)} |->
    IF code_block.ok THEN code_block ELSE
    Bind([quote \in {parse_quote(code_block.p)} |->
    IF quote.ok THEN quote ELSE
    Bind([import \in {parse_import(quote.p)} |->
    IF import.ok THEN import ELSE
    IF IsSome(import.p.section_return) THEN Err(import.p) ELSE
    Bind([pholder \in {parse_placeholder(import.p)} |->
    IF pholder.ok THEN pholder ELSE
    Bind([paragraph \in {parse_paragraph(pholder.p)} |->
    IF paragraph.ok THEN paragraph ELSE Err(paragraph.p)])])])])])])])

parse_block(p) ==
    Logged("block", p,
      IF /\ IsSome(p.section_return)
         /\ p.section_return[1] <= p.section_nesting
         /\ p.section_nesting > 0
      THEN Err(p)
      ELSE Bind([section \in {parse_section([p EXCEPT !.section_return = None])} |->
          IF section.ok THEN section
          ELSE IF IsSome(section.p.section_return) THEN Err(section.p)
          ELSE block_alternatives(section.p)]))

----------------------------------------------------------------------------
(* The parser and the parse tasks.                                         *)

\* Document::new and Document::add_element (elements.rs)
NewDocument(is_root) ==
    [elements |-> <<>>, placeholders |-> <<>>, path |-> None, is_root |-> is_root]

add_element(p, block) == [p EXCEPT !.document.elements = Append(@, block)]

\* Parser::create, but for the registration of the path, which RegisterOwn is:
\* the text with the three characters of the end of the file appended.  paths
\* holds the registry for the time of a step, spawned the threads the step
\* started and ntasks the number of tasks before it; imports and log are the
\* record of the import attempts and of the productions attempted.
create(text, path, is_child) ==
    [index |-> 0,
     text |-> text \o <<LB, SPACE, LB>>,
     current_char |-> (text \o <<LB>>)[1],
     sections |-> <<>>,
     section_nesting |-> 0,
     section_return |-> None,
     path |-> path,
     is_child |-> is_child,
     inline_break_at |-> <<>>,
     document |-> NewDocument(~is_child),
     paths |-> <<>>,
     spawned |-> <<>>,
     ntasks |-> 0,
     imports |-> <<>>,
     log |-> <<>>]

\* create without the registration of the path
RegisterOwn_Skip(registry, path) == registry

\* the registration of the parser's own path in Parser::create
RegisterOwn(registry, path) == IF IsSome(path) THEN Append(registry, path[1]) ELSE registry

\* a thread of import_document that has not run yet: it holds a clone of the
\* WaitGroup of the parser that started it, and the anchor is empty
SpawnedTask(parent, path) ==
    [parser |-> create(<<>>, Some(path), TRUE), pc |-> "spawned", parent |-> parent,
     path |-> path, anchor |-> None, writes |-> 0, dropped |-> FALSE, result |-> None,
     failed |-> FALSE, panicked |-> FALSE, passes |-> 0]

RootTask(text, path) ==
    [parser |-> create(text, path, FALSE), pc |-> "loop", parent |-> 0,
     path |-> <<>>, anchor |-> None, writes |-> 0, dropped |-> TRUE, result |-> None,
     failed |-> FALSE, panicked |-> FALSE, passes |-> 0]

Tasks == 1..Len(tasks)

Children(t) == {c \in Tasks : tasks[c].parent = t}

\* the most tasks a run may hold
MaxTasks == 6

\* a character that stands for bytes that are no UTF-8
INVALID == "?"

\* fs::read_to_string: Ok for a file whose content is text
read_ok(path) == INVALID \notin Range(fs[path])

\* the thread of an import starts: it reads the file and creates its parser,
\* which registers the path of the file.  When the file cannot be read as
\* text the unwrap panics: the thread ends, and the unwinding drops the
\* clone of the WaitGroup it holds; the anchor is left as it is.
Start(t) ==
    /\ tasks[t].pc = "spawned"
    /\ IF read_ok(tasks[t].path)
       THEN /\ tasks' = [tasks EXCEPT
                           ![t].parser = create(fs[tasks[t].path], Some(tasks[t].path), TRUE),
                           ![t].pc = "loop"]
            /\ paths' = RegisterOwn(paths, Some(tasks[t].path))
       ELSE /\ tasks' = [tasks EXCEPT ![t].panicked = TRUE, ![t].dropped = TRUE,
                                      ![t].pc = "exit"]
            /\ paths' = paths
    /\ UNCHANGED <<fs, gen>>

\* the parser of a task after a step, without what it held for the step only
Settled(p) == [p EXCEPT !.paths = <<>>, !.spawned = <<>>, !.ntasks = 0]

\* the loop of parse after a turn: it goes on while the index is inside the
\* text, and it is left for the join barrier otherwise
LoopAfter(task, p) ==
    [task EXCEPT !.parser = Settled(p),
                 !.pc = IF p.index < Len(p.text) THEN "loop" ELSE "join"]

\* a loop that goes on after the error of a block
LoopAfterError_Continue(task, p) ==
    [task EXCEPT !.parser = Settled(p), !.pc = "loop", !.failed = TRUE]

\* what the loop of parse does with a block that failed: the loop is left
LoopAfterError(task, p) == [task EXCEPT !.parser = Settled(p), !.pc = "join", !.failed = TRUE]

\* one turn of the loop of parse: a block is parsed and added, or the error
\* of the block ends the loop; the threads the block started are spawned
ParseLoopStep(t) ==
    /\ tasks[t].pc = "loop"
    /\ \E r \in {parse_block([tasks[t].parser EXCEPT !.paths = paths,
                                                       !.ntasks = Len(tasks)])} :
           /\ Len(tasks) + Len(r.p.spawned) <= MaxTasks
           /\ paths' = r.p.paths
           /\ tasks' = [tasks EXCEPT ![t] =
                           IF r.ok THEN LoopAfter(@, add_element(r.p, r.v))
                           ELSE LoopAfterError(@, r.p)]
                        \o [i \in 1..Len(r.p.spawned) |-> SpawnedTask(t, r.p.spawned[i])]
    /\ UNCHANGED <<fs, gen>>

\* a wait for every other thread of the tree
WaitDone_Everyone(t) == \A c \in Tasks \ {t} : tasks[c].dropped

\* WaitGroup::wait returns when every clone of the group has been dropped
WaitDone(t) == \A c \in Children(t) : tasks[c].dropped

\* a parse that processes the placeholders of every document
process_placeholders_Always(p) == 1

\* the calls of Document::process_placeholders at the end of parse: one for
\* a parser that is no child
process_placeholders(p) == IF ~p.is_child THEN 1 ELSE 0

\* the end of parse: the wait at the join barrier, then the placeholders of
\* a root document are processed, and the document is returned; passes
\* counts the calls of process_placeholders
Finish(t) ==
    /\ tasks[t].pc = "join"
    /\ WaitDone(t)
    /\ LET p == tasks[t].parser
       IN  tasks' = [tasks EXCEPT
                        ![t].result = Some([p.document EXCEPT !.path = p.path]),
                        ![t].passes = @ + process_placeholders(p),
                        ![t].parser.document = NewDocument(~p.is_child),
                        ![t].pc = IF p.is_child THEN "set" ELSE "exit"]
    /\ UNCHANGED <<fs, paths, gen>>

\* the thread writes the document into the anchor
SetDocument(t) ==
    /\ tasks[t].pc = "set"
    /\ tasks' = [tasks EXCEPT ![t].anchor = tasks[t].result,
                              ![t].writes = @ + 1,
                              ![t].pc = "drop"]
    /\ UNCHANGED <<fs, paths, gen>>

\* the thread drops its clone of the WaitGroup of the parser that started it
DropWg(t) ==
    /\ tasks[t].pc = "drop"
    /\ tasks' = [tasks EXCEPT ![t].dropped = TRUE, ![t].pc = "exit"]
    /\ UNCHANGED <<fs, paths, gen>>

Next ==
    \/ \E t \in Tasks : Start(t)
    \/ \E t \in Tasks : ParseLoopStep(t)
    \/ \E t \in Tasks : Finish(t)
    \/ \E t \in Tasks : SetDocument(t)
    \/ \E t \in Tasks : DropWg(t)

----------------------------------------------------------------------------
(* The inputs.                                                             *)

Dir == <<"d">>
File(name) == Dir \o <<SLASH, name>>
RootPath == File("A")

ImportLine(name) == <<IMPORT_START, IMPORT_OPEN, name, IMPORT_CLOSE, LB>>
TextLine(c) == <<c, LB>>

\* Parser::new_from_file on the root file of a file system
InitOn(files, g) ==
    /\ fs = files
    /\ gen = g
    /\ paths = RegisterOwn(<<>>, Some(RootPath))
    /\ tasks = <<RootTask(files[RootPath], Some(RootPath))>>

\* the files of the import runs and what an import may name: the files, one
\* file that is no text, and one name no file has
Names == {"A", "B", "C", "D"}
Binary == "U"
Missing == "X"
NameOrder == <<"A", "B", "C", "D", "U", "X">>

\* the most import directives in the files of a run
MaxEdges == 3

\* a set of import directives <<file, imported name>>; every file that
\* imports is reached from the root
Reach(E) ==
    LET step(R) == R \cup {e[2] : e \in {f \in E : f[1] \in R}}
    IN  step(step(step(step({"A"}))))

\* A imports B and C, and both import D
DiamondEdges == {<<"A", "B">>, <<"A", "C">>, <<"B", "D">>, <<"C", "D">>}

EdgeSets ==
    {E \in SUBSET ((Names \X Names) \cup ({"A", "B"} \X {Binary, Missing})) :
        /\ Cardinality(E) <= MaxEdges
        /\ \A e \in E : e[1] \in Reach(E)}

\* the content of a file: its import directives in the order of the names,
\* or a line of text when it imports nothing
ImportsOf(E, name) ==
    SelectSeq(NameOrder, LAMBDA n : <<name, n>> \in E)

ImportFile(E, name) ==
    IF name = Binary THEN <<INVALID>>
    ELSE IF ImportsOf(E, name) = <<>> THEN TextLine("x")
    ELSE Flatten([i \in 1..Len(ImportsOf(E, name)) |-> ImportLine(ImportsOf(E, name)[i])])

ImportFiles(E) ==
    [path \in {File(n) : n \in Names \cup {Binary}} |-> ImportFile(E, path[Len(path)])]

InitImports(E) == InitOn(ImportFiles(E), [kind |-> "imports", edges |-> E])

Init == (\E E \in EdgeSets : InitImports(E)) \/ InitImports(DiamondEdges)

Spec == Init /\ [][Next]_vars

\* a document without the numbers of the anchors of its imports, which
\* name tasks: an Import is named by its path
NormBlock(block) ==
    IF block.type = "Import" THEN [type |-> "Import", path |-> block.path] ELSE block

NormDocument(doc) ==
    IF doc = None THEN None
    ELSE Some([doc[1] EXCEPT !.elements = [i \in 1..Len(@) |-> NormBlock(@[i])]])

\* what a run has produced: the document of the root, and for the path of
\* every import that succeeded the document its anchor holds
Outcome ==
    [root |-> NormDocument(tasks[1].result),
     anchors |-> {<<tasks[t].path, NormDocument(tasks[t].anchor)>> : t \in Tasks \ {1}}]

\* the program is run a second time on the same files, the outcome of the
\* first run kept for the comparison
Rerun ==
    /\ \A t \in Tasks : tasks[t].pc = "exit"
    /\ "first" \notin DOMAIN gen
    /\ gen' = [kind |-> gen.kind, edges |-> gen.edges, first |-> Outcome]
    /\ paths' = RegisterOwn(<<>>, Some(RootPath))
    /\ tasks' = <<RootTask(fs[RootPath], Some(RootPath))>>
    /\ UNCHANGED fs

NextRuns ==
    \/ Next
    \/ Rerun

SpecRuns == Init /\ [][NextRuns]_vars

\* a thread is in the loop of parse: its next turn can be taken
LoopEnabled == \E t \in Tasks : tasks[t].pc = "loop"

\* a turn of the loop of parse is taken: a block was attempted
LoopTurn ==
    \E t \in Tasks :
        /\ tasks[t].pc = "loop"
        /\ tasks'[t].parser.log # tasks[t].parser.log

\* the steps of the threads outside the loop of parse
OtherStep == \E t \in Tasks : Start(t) \/ Finish(t) \/ SetDocument(t) \/ DropWg(t)

\* the import runs under a fair scheduling of the threads: while a thread
\* can take a step, a step is taken in the end (for the loop of parse the
\* weak fairness is written out, a turn being possible whenever a thread is
\* in the loop)
SpecFair ==
    /\ Init /\ [][Next]_vars
    /\ WF_vars(OtherStep)
    /\ ([]<>~LoopEnabled \/ []<><<LoopTurn>>_vars)

\* the texts of the parse runs: the lines carry the letters of Title in
\* their order, so that a node of the tree names the line it was parsed from
Title == <<"a", "b", "c", "d", "e", "f">>

\* the digit of the marker of the i-th item of a numbered list
Title2Digit == <<"1", "2", "3", "4", "5", "6">>

Repeat(c, n) == [k \in 1..n |-> c]

\* a sequence of header lines, by the number of markers of each
MaxHeaders == 4
MaxDepth == 3
HeaderLine(depth, i) == Repeat(HASH, depth) \o <<SPACE, Title[i], LB>>
HeaderText(depths) == Flatten([i \in 1..Len(depths) |-> HeaderLine(depths[i], i)])
DepthSeqs == UNION {[1..n -> 1..MaxDepth] : n \in 1..MaxHeaders}

\* one header line with as many markers as the counter of parse_section
\* holds, one fewer, or one more
WideCounts == {U8Mod - 1, U8Mod, U8Mod + 1}
WideText(count) == Repeat(HASH, count) \o <<SPACE, Title[1], LB>>

\* a sequence of list items, by the indentation of each
MaxItems == 3
MaxLevel == 2
ItemLine(level, i) == Repeat(SPACE, level) \o <<MINUS, SPACE, Title[i], LB>>
ItemText(levels) == Flatten([i \in 1..Len(levels) |-> ItemLine(levels[i], i)])
LevelSeqs == UNION {[1..n -> 0..MaxLevel] : n \in 1..MaxItems}

\* a sequence of list items at the margin, by the marker of each
MaxMarkers == 2
MarkerKinds == {"minus", "plus", "star", "digit_dot", "digit"}
NumericMarkers == {"digit_dot", "digit"}
Marker(kind, i) ==
    CASE kind = "minus" -> <<MINUS>>
      [] kind = "plus" -> <<"+">>
      [] kind = "star" -> <<"*">>
      [] kind = "digit_dot" -> <<Title2Digit[i], DOT>>
      [] kind = "digit" -> <<Title2Digit[i]>>
MarkerLine(kind, i) == Marker(kind, i) \o <<SPACE, Title[i], LB>>
MarkerText(kinds) == Flatten([i \in 1..Len(kinds) |-> MarkerLine(kinds[i], i)])
MarkerSeqs == UNION {[1..n -> MarkerKinds] : n \in 1..MaxMarkers}

\* a sequence of lines of several kinds
MaxLines == 3
LineKinds ==
    {"text", "import", "import_missing", "header1", "header2", "header2_meta",
     "placeholder", "fence"}
Line(kind, i) ==
    CASE kind = "text" -> TextLine(Title[i])
      [] kind = "import" -> ImportLine("B")
      [] kind = "import_missing" -> ImportLine(Missing)
      [] kind = "header1" -> HeaderLine(1, i)
      [] kind = "header2" -> HeaderLine(2, i)
      [] kind = "header2_meta" ->
             <<HASH, HASH, META_OPEN, "k", EQ>> \o SQ_PHOLDER_START \o <<"p">>
             \o SQ_PHOLDER_STOP \o <<META_CLOSE, SPACE, Title[i], LB>>
      [] kind = "placeholder" -> SQ_PHOLDER_START \o <<"p">> \o SQ_PHOLDER_STOP \o <<LB>>
      [] kind = "fence" -> SQ_CODE_BLOCK \o <<Title[i], LB>>
LinesText(kinds) == Flatten([i \in 1..Len(kinds) |-> Line(kinds[i], i)])
KindSeqs == UNION {[1..n -> LineKinds] : n \in 1..MaxLines}

\* a block of metadata behind a placeholder, by the kind of each pair; the
\* key of a pair is the letter of its place
MaxPairs == 2
PairKinds ==
    {"flag", "int", "float", "bool_upper", "bool_false", "token", "quoted",
     "quoted_int", "quoted_close"}
PairValue(kind) ==
    CASE kind = "flag" -> <<>>
      [] kind = "int" -> <<EQ, "3">>
      [] kind = "float" -> <<EQ, "1", DOT, "5">>
      [] kind = "bool_upper" -> <<EQ, "T", "r", "U", "e">>
      [] kind = "bool_false" -> <<EQ, "F", "A", "L", "S", "E">>
      [] kind = "token" -> <<EQ, "x", "y">>
      [] kind = "quoted" -> <<EQ, "\"", "x", SPACE, "y", "\"">>
      [] kind = "quoted_int" -> <<EQ, "'", "3", "'">>
      [] kind = "quoted_close" -> <<EQ, "\"", "x", META_CLOSE, "y", "\"">>
PairText(kinds, i) ==
    (IF i > 1 THEN <<SPACE>> ELSE <<>>) \o <<Title[i]>> \o PairValue(kinds[i])
MetaText(kinds, closed) ==
    SQ_PHOLDER_START \o <<"p">> \o SQ_PHOLDER_STOP \o <<META_OPEN>>
    \o Flatten([i \in 1..Len(kinds) |-> PairText(kinds, i)])
    \o (IF closed THEN <<META_CLOSE>> ELSE <<>>) \o <<LB>>
PairSeqs == UNION {[1..n -> PairKinds] : n \in 0..MaxPairs}

\* `{count=3 active ratio=1.5 label="x y"}`, by the kinds of its pairs
ExamplePairs == <<"int", "flag", "float", "quoted">>

\* a table: the header row `|a|`, a second line of a kind, and rows `|c|`
MaxRows == 2
SecondKinds ==
    {"sep", "sep_dashes", "sep_spaced", "row", "text", "text1", "mixed", "tail", "none"}
SecondLine(kind) ==
    CASE kind = "sep" -> <<PIPE, MINUS, PIPE, LB>>
      [] kind = "sep_dashes" -> <<MINUS, MINUS, MINUS, LB>>
      [] kind = "sep_spaced" -> <<PIPE, SPACE, MINUS, SPACE, PIPE, LB>>
      [] kind = "row" -> <<PIPE, "b", PIPE, LB>>
      [] kind = "text" -> <<"x", "y", LB>>
      [] kind = "text1" -> <<"x", LB>>
      [] kind = "mixed" -> <<"x", MINUS, PIPE, LB>>
      [] kind = "tail" -> <<PIPE, MINUS, "x", LB>>
      [] kind = "none" -> <<>>
HeaderRow == <<PIPE, "a", PIPE, LB>>
DataRow == <<PIPE, "c", PIPE, LB>>
TableText(second, rows) ==
    HeaderRow \o SecondLine(second) \o Flatten([i \in 1..rows |-> DataRow])

\* the root file with a text, beside a file B of one line of text
ParseFiles(text) ==
    [path \in {RootPath, File("B")} |-> IF path = RootPath THEN text ELSE TextLine("x")]

InitParse ==
    \/ \E depths \in DepthSeqs :
           InitOn(ParseFiles(HeaderText(depths)), [kind |-> "headers", depths |-> depths])
    \/ \E levels \in LevelSeqs :
           InitOn(ParseFiles(ItemText(levels)), [kind |-> "list", levels |-> levels])
    \/ \E kinds \in KindSeqs :
           InitOn(ParseFiles(LinesText(kinds)), [kind |-> "lines", lines |-> kinds])
    \/ \E count \in WideCounts :
           InitOn(ParseFiles(WideText(count)), [kind |-> "wide", count |-> count])
    \/ \E markers \in MarkerSeqs :
           InitOn(ParseFiles(MarkerText(markers)),
                  [kind |-> "markers", markers |-> markers])
    \/ \E second \in SecondKinds : \E rows \in 0..MaxRows :
           InitOn(ParseFiles(TableText(second, IF second = "none" THEN 0 ELSE rows)),
                  [kind |-> "table", second |-> second,
                   rows |-> IF second = "none" THEN 0 ELSE rows])
    \/ \E pairs \in PairSeqs \cup {ExamplePairs} : \E closed \in BOOLEAN :
           InitOn(ParseFiles(MetaText(pairs, closed)),
                  [kind |-> "meta", pairs |-> pairs, closed |-> closed])

SpecParse == InitParse /\ [][Next]_vars

----------------------------------------------------------------------------
(* The import tree.                                                        *)

\* the tasks that have returned from parse
Returned(t) == IsSome(tasks[t].result)

\* the import attempts of the run: the task, and the record of the attempt
Attempts ==
    {ti \in Tasks \X (1..MaxEdges + 1) : ti[2] <= Len(tasks[ti[1]].parser.imports)}

AttemptOf(ti) == tasks[ti[1]].parser.imports[ti[2]]

\* the path of the document of a task, and the paths of the task and of the
\* tasks above it in the import tree
PathOf(t) == IF t = 1 THEN RootPath ELSE tasks[t].path

RECURSIVE AncestorPaths(_)
AncestorPaths(t) ==
    IF t = 0 THEN {} ELSE {PathOf(t)} \cup AncestorPaths(tasks[t].parent)

AllExited == \A t \in Tasks : tasks[t].pc = "exit"

\* C1: a parse returns only after every import task it spawned has returned
\* from its own parse and dropped its clone of the WaitGroup, whether or not
\* the loop of blocks was left on an error.
C1_JoinBeforeReturn ==
    \A t \in Tasks :
        Returned(t) => \A c \in Children(t) : Returned(c) /\ tasks[c].dropped

\* C2: when the placeholders of the root are processed (the barrier of the
\* root is open, or the root has returned), every anchor of the import tree
\* holds the document its task returned.
C2_AnchorsFullAtResolution ==
    ((tasks[1].pc = "join" /\ WaitDone(1)) \/ tasks[1].pc = "exit")
        => \A t \in Tasks \ {1} : IsSome(tasks[t].anchor) /\ tasks[t].anchor = tasks[t].result

\* C3: at most one import of a resolved path succeeds, and every other import
\* of that path fails with "cyclic import"; in the diamond one of the two
\* imports of D succeeds and the other one is rejected.
C3_OneImportPerPath ==
    /\ \A a, b \in Attempts :
          (AttemptOf(a).path = AttemptOf(b).path /\ AttemptOf(a).res = "ok" /\ a # b)
              => AttemptOf(b).res = "cyclic import"
    /\ \A t, u \in Tasks \ {1} : tasks[t].path = tasks[u].path => t = u
    /\ (gen.edges = DiamondEdges /\ AllExited) =>
          /\ Cardinality({a \in Attempts : AttemptOf(a).path = File("D")
                                           /\ AttemptOf(a).res = "ok"}) = 1
          /\ Cardinality({a \in Attempts : AttemptOf(a).path = File("D")
                                           /\ AttemptOf(a).res = "cyclic import"}) = 1

\* the diamond has been parsed: D was imported once and rejected once, by
\* different documents
C3_Witness ==
    /\ gen.edges = DiamondEdges /\ AllExited
    /\ \E a, b \in Attempts :
          /\ a[1] # b[1]
          /\ AttemptOf(a).path = File("D") /\ AttemptOf(a).res = "ok"
          /\ AttemptOf(b).path = File("D") /\ AttemptOf(b).res = "cyclic import"

\* C4: an import of the path of the importing document or of a document above
\* it in the import tree fails with "cyclic import" and spawns no task, so no
\* document is below itself in the tree.
C4_NoImportOfAncestor ==
    /\ \A a \in Attempts :
          AttemptOf(a).path \in AncestorPaths(a[1]) => AttemptOf(a).res = "cyclic import"
    /\ \A t \in Tasks \ {1} : tasks[t].path \notin AncestorPaths(tasks[t].parent)

\* A imports B and B imports A: the import of A by B has been rejected
C4_Witness ==
    \E a \in Attempts :
        /\ a[1] # 1 /\ tasks[a[1]].parent = 1 /\ tasks[a[1]].path = File("B")
        /\ AttemptOf(a).path = RootPath /\ AttemptOf(a).res = "cyclic import"

\* C5: an anchor is written once, by its own task and with the document that
\* task returned, before the task drops its clone of the WaitGroup; a parser
\* that has passed its barrier finds the anchors of its imports written.
C5_AnchorWrittenOnce ==
    \A t \in Tasks \ {1} :
        /\ tasks[t].writes <= 1
        /\ IsSome(tasks[t].anchor) <=> tasks[t].writes = 1
        /\ IsSome(tasks[t].anchor) => tasks[t].anchor = tasks[t].result
        /\ tasks[t].dropped => tasks[t].writes = 1
        /\ Returned(tasks[t].parent) => IsSome(tasks[t].anchor)

----------------------------------------------------------------------------
(* The trees of sections and of list items.                                *)

\* the line a node was parsed from, by the letter of its text
PosOf(line) == CHOOSE i \in 1..Len(Title) : Title[i] = line.subtext[1][1]

\* the nearest line before i with a smaller level or depth; 0 when none is
NearestSmaller(levels, i) ==
    LET smaller == {j \in 1..(i - 1) : levels[j] < levels[i]}
    IN  IF smaller = {} THEN 0 ELSE CHOOSE j \in smaller : \A k \in smaller : k <= j

\* the tree the rule of the nearest smaller level gives: <<line, parent>>
ExpectedEdges(levels) == {<<i, NearestSmaller(levels, i)>> : i \in 1..Len(levels)}

Increasing(s) == \A i, j \in 1..Len(s) : i < j => s[i] < s[j]

RECURSIVE SectionEdges(_, _), SectionsInOrder(_)

\* the tree of the sections among blocks: <<line, line of the parent>>
SectionEdges(blocks, parent) ==
    UNION {{<<PosOf(blocks[i].header.line), parent>>}
               \cup SectionEdges(blocks[i].elements, PosOf(blocks[i].header.line)) :
           i \in {j \in 1..Len(blocks) : blocks[j].type = "Section"}}

\* every block is a Section, and the Sections of a parent are in the order
\* of their lines
SectionsInOrder(blocks) ==
    /\ \A i \in 1..Len(blocks) :
          blocks[i].type = "Section" /\ SectionsInOrder(blocks[i].elements)
    /\ Increasing([i \in 1..Len(blocks) |-> PosOf(blocks[i].header.line)])

\* C6: for a sequence of header lines, the parent of each Section of the
\* returned tree is the nearest header before it with a smaller depth, the
\* document when there is none; the Sections of a parent are in the order of
\* the source, and every header is a Section of the tree.  `# a`, `## b`,
\* `## c`, `# d` is one of the sequences.
C6_SectionTree ==
    (gen.kind = "headers" /\ Returned(1)) =>
        /\ SectionEdges(tasks[1].result[1].elements, 0) = ExpectedEdges(gen.depths)
        /\ SectionsInOrder(tasks[1].result[1].elements)

\* `# a`, `## b`, `## c`, `# d` was parsed: two Sections, a over b and c, and d
C6_Witness ==
    /\ gen.kind = "headers" /\ gen.depths = <<1, 2, 2, 1>> /\ Returned(1)
    /\ Len(tasks[1].result[1].elements) = 2
    /\ Len(tasks[1].result[1].elements[1].elements) = 2
    /\ Len(tasks[1].result[1].elements[2].elements) = 0

RECURSIVE ItemEdges(_, _), ItemsInOrder(_)

\* the forest of a list: <<line, line of the parent>>
ItemEdges(items, parent) ==
    UNION {{<<PosOf(items[i].text), parent>>}
               \cup ItemEdges(items[i].children, PosOf(items[i].text)) :
           i \in 1..Len(items)}

ItemsInOrder(items) ==
    /\ \A i \in 1..Len(items) : ItemsInOrder(items[i].children)
    /\ Increasing([i \in 1..Len(items) |-> PosOf(items[i].text)])

\* C7: for a sequence of list items of any indentation, the List that is
\* returned holds every item once, the parent of each item is the nearest
\* item before it with a smaller indentation, an item with none before it is
\* an item of the list, and the items of a parent are in the order of the
\* source.
C7_ListForest ==
    (gen.kind = "list" /\ Returned(1)) =>
        /\ Len(tasks[1].result[1].elements) = 1
        /\ tasks[1].result[1].elements[1].type = "List"
        /\ ItemEdges(tasks[1].result[1].elements[1].items, 0) = ExpectedEdges(gen.levels)
        /\ ItemsInOrder(tasks[1].result[1].elements[1].items)

----------------------------------------------------------------------------
(* The loop of parse, the cursor and the registry of placeholders.         *)

\* the blocks of the document of a task: of the one it has returned, or of
\* the one it is building
BlocksOf(task) ==
    IF IsSome(task.result) THEN task.result[1].elements ELSE task.parser.document.elements

IsPrefix(s, t) == Len(s) <= Len(t) /\ SubSeq(t, 1, Len(s)) = s

\* C8: when a block fails in the loop of parse, the loop is left on that
\* step and no block is attempted after it (no production is entered, the
\* loop is not entered again), the document keeps the blocks it had and gets
\* no other, up to its return; a block that is parsed is put behind the
\* blocks parsed before it.
C8_LoopStopsAtFirstFailure ==
    [][\A t \in Tasks :
          /\ IsPrefix(BlocksOf(tasks[t]), BlocksOf(tasks'[t]))
          /\ (~tasks[t].failed /\ tasks'[t].failed) =>
                 tasks'[t].pc = "join" /\ BlocksOf(tasks'[t]) = BlocksOf(tasks[t])
          /\ tasks[t].failed =>
                 /\ tasks'[t].failed /\ tasks'[t].pc # "loop"
                 /\ tasks'[t].parser.log = tasks[t].parser.log
                 /\ BlocksOf(tasks'[t]) = BlocksOf(tasks[t])]_vars

\* a parse whose loop was left on an error has returned the block that was
\* parsed before the error
C8_Witness ==
    /\ gen.kind = "lines" /\ tasks[1].failed /\ Returned(1)
    /\ Len(tasks[1].result[1].elements) >= 1

\* the productions of the grammar
Productions ==
    {"section", "list", "list_item", "table", "row", "code_block", "quote", "import",
     "placeholder", "paragraph", "inline_metadata"}

\* the attempts of the productions a task has made so far
LogOf(t) == tasks[t].parser.log

\* C9: every production that fails leaves the index of the cursor where it
\* was when the production was entered.
C9_CursorRestoredOnFailure ==
    \A t \in Tasks : \A i \in 1..Len(LogOf(t)) :
        (LogOf(t)[i].prod \in Productions /\ ~LogOf(t)[i].ok)
            => LogOf(t)[i].to = LogOf(t)[i].from

RECURSIVE Sum(_), MetaNodes(_), BlockNodes(_)

Sum(s) == IF s = <<>> THEN 0 ELSE Head(s) + Sum(Tail(s))

\* the Placeholder nodes of metadata: the values that are placeholders, and
\* the placeholders of their metadata
MetaNodes(metadata) ==
    IF metadata = None THEN 0
    ELSE Sum([i \in 1..Len(metadata[1]) |->
                 IF metadata[1][i].value.kind = "Placeholder"
                 THEN 1 + MetaNodes(metadata[1][i].value.raw[1].metadata)
                 ELSE 0])

\* the Placeholder nodes of a block
BlockNodes(block) ==
    CASE block.type = "Section" ->
             MetaNodes(block.metadata)
             + Sum([i \in 1..Len(block.elements) |-> BlockNodes(block.elements[i])])
      [] block.type = "Quote" -> MetaNodes(block.metadata)
      [] block.type = "Placeholder" -> 1 + MetaNodes(block.metadata)
      [] OTHER -> 0

\* C10: a production that fails registers no Placeholder, and the registry of
\* a document that was returned holds one entry for each Placeholder node of
\* its tree.
C10_RegistryMatchesTree ==
    \A t \in Tasks :
        /\ \A i \in 1..Len(LogOf(t)) :
              (LogOf(t)[i].prod \in Productions /\ ~LogOf(t)[i].ok)
                  => LogOf(t)[i].registered = 0
        /\ Returned(t) =>
              Len(tasks[t].result[1].placeholders)
                  = Sum([i \in 1..Len(tasks[t].result[1].elements) |->
                            BlockNodes(tasks[t].result[1].elements[i])])

----------------------------------------------------------------------------
(* Metadata.                                                               *)

\* the value a pair of a kind stands for
ExpectedValue(kind) ==
    CASE kind = "flag" -> MetaValue("Bool", <<"true">>)
      [] kind = "int" -> MetaValue("Integer", <<"3">>)
      [] kind = "float" -> MetaValue("Float", <<"1", DOT, "5">>)
      [] kind = "bool_upper" -> MetaValue("Bool", <<"true">>)
      [] kind = "bool_false" -> MetaValue("Bool", <<"false">>)
      [] kind = "token" -> MetaValue("String", <<"x", "y">>)
      [] kind = "quoted" -> MetaValue("String", <<"x", SPACE, "y">>)
      [] kind = "quoted_int" -> MetaValue("String", <<"3">>)
      [] kind = "quoted_close" -> MetaValue("String", <<"x", META_CLOSE, "y">>)

ExpectedMeta(kinds) ==
    [i \in 1..Len(kinds) |-> [key |-> <<Title[i]>>, value |-> ExpectedValue(kinds[i])]]

\* the same, a quoted text ending at the first closing bracket: the block of
\* metadata ends with that pair
FirstClose(kinds) ==
    IF \E i \in 1..Len(kinds) : kinds[i] = "quoted_close"
    THEN CHOOSE i \in 1..Len(kinds) :
             /\ kinds[i] = "quoted_close"
             /\ \A j \in 1..(i - 1) : kinds[j] # "quoted_close"
    ELSE Len(kinds)

ExpectedMetaCut(kinds) ==
    [i \in 1..FirstClose(kinds) |->
        [key |-> <<Title[i]>>,
         value |-> IF kinds[i] = "quoted_close" THEN MetaValue("String", <<"x">>)
                   ELSE ExpectedValue(kinds[i])]]

\* the run parsed a closed block of metadata of one pair or more
MetaParsed == gen.kind = "meta" /\ gen.closed /\ gen.pairs # <<>> /\ Returned(1)

\* the metadata of the placeholder at the head of the document
HeadMeta == tasks[1].result[1].elements[1].metadata

\* C11 as stated: every pair of a block of metadata is typed by its form: no
\* `=` is Bool(true), a quoted value is the String of the text between the
\* quotes whatever the text, a bare token is Bool, Integer, Float or String
\* in that order of trial.
C11_PairsTyped ==
    MetaParsed =>
        /\ tasks[1].result[1].elements[1].type = "Placeholder"
        /\ HeadMeta = Some(ExpectedMeta(gen.pairs))

\* C11, amended: the same typing, the text of a quoted value ending at the
\* first of the matching quote, the closing bracket and the linebreak (a
\* closing bracket inside the quotes ends the value and the metadata).
C11_PairsTypedUpToClose ==
    MetaParsed =>
        /\ tasks[1].result[1].elements[1].type = "Placeholder"
        /\ HeadMeta = Some(ExpectedMetaCut(gen.pairs))

\* `{count=3 active ratio=1.5 label="x y"}` was parsed to Integer(3),
\* Bool(true), Float(1.5) and String("x y")
C11_Witness ==
    /\ MetaParsed /\ gen.pairs = ExamplePairs
    /\ HeadMeta = Some(<<[key |-> <<"a">>, value |-> MetaValue("Integer", <<"3">>)],
                         [key |-> <<"b">>, value |-> MetaValue("Bool", <<"true">>)],
                         [key |-> <<"c">>, value |-> MetaValue("Float", <<"1", DOT, "5">>)],
                         [key |-> <<"d">>,
                          value |-> MetaValue("String", <<"x", SPACE, "y">>)]>>)

----------------------------------------------------------------------------
(* Tables.                                                                 *)

\* the lines of dashes and pipes, with inline whitespace
IsSeparator(second) == second \in {"sep", "sep_dashes", "sep_spaced"}

TableParsed == gen.kind = "table" /\ Returned(1)

\* the attempts of parse_table at the head of the text
HeadTables == {i \in 1..Len(LogOf(1)) : LogOf(1)[i].prod = "table" /\ LogOf(1)[i].from = 0}

\* C12: parse_table parses rows when the line after the header row is made
\* of dashes and pipes only (with inline whitespace) up to its linebreak, and
\* only then; otherwise the Table has the header and no row, and the cursor
\* is just behind the header row, the line after it unconsumed (when there
\* is a line after it).
C12_SeparatorDecidesRows ==
    TableParsed =>
        /\ tasks[1].result[1].elements[1].type = "Table"
        /\ Len(tasks[1].result[1].elements[1].header) = 1
        /\ IF IsSeparator(gen.second)
           THEN Len(tasks[1].result[1].elements[1].rows) = gen.rows
           ELSE /\ Len(tasks[1].result[1].elements[1].rows) = 0
                /\ gen.second # "none" =>
                       \A i \in HeadTables :
                           LogOf(1)[i].ok /\ LogOf(1)[i].to = Len(HeaderRow)

----------------------------------------------------------------------------
(* Two runs on the same files.                                             *)

\* C13: for fixed files the document every anchor ends up holding, and the
\* tree returned for the root, are the same in every interleaving: a second
\* run on the same files ends with the outcome of the first (the same
\* imports succeeded, every anchor holds the same document).
C13_SameInEveryRun ==
    ("first" \in DOMAIN gen /\ AllExited) => Outcome = gen.first

----------------------------------------------------------------------------
(* The pass over the placeholders.                                         *)

\* C14: the placeholders are processed once in the parse of the root, behind
\* its join barrier (on the step of the call every task the root spawned has
\* dropped its clone of the WaitGroup), and never in the parse of an imported
\* document.
C14_PlaceholderPassOnceOnRoot ==
    /\ [](\A t \in Tasks :
             /\ tasks[t].passes = IF t = 1 /\ Returned(t) THEN 1 ELSE 0)
    /\ [][\A t \in Tasks :
             (t <= Len(tasks') /\ tasks'[t].passes > tasks[t].passes)
                 => t = 1 /\ tasks[t].pc = "join" /\ WaitDone(t)]_vars

\* the root has returned with one pass over its placeholders, and a document
\* it imported has returned without one
C14_Witness ==
    /\ Returned(1) /\ tasks[1].passes = 1
    /\ \E c \in Children(1) : Returned(c) /\ tasks[c].passes = 0

----------------------------------------------------------------------------
(* Imports inside sections.                                                *)

RECURSIVE ImportNodes(_)

\* the Import blocks of a block, itself and the blocks inside it
ImportNodes(block) ==
    CASE block.type = "Import" -> 1
      [] block.type = "Section" ->
             Sum([i \in 1..Len(block.elements) |-> ImportNodes(block.elements[i])])
      [] OTHER -> 0

\* the text starts with a header, so every line behind it is met inside an
\* open section
InsideSection ==
    /\ gen.kind = "lines" /\ gen.lines # <<>>
    /\ gen.lines[1] \in {"header1", "header2", "header2_meta"}

\* C15: an import directive met while the nesting is above 0 is rejected: no
\* task is spawned, no path is registered, and the document returned holds
\* no Import block for it, inside a Section or at the top level.
C15_NoImportInsideSection ==
    InsideSection =>
        /\ Len(tasks) = 1
        /\ paths = <<RootPath>>
        /\ Sum([i \in 1..Len(BlocksOf(tasks[1])) |-> ImportNodes(BlocksOf(tasks[1])[i])]) = 0

----------------------------------------------------------------------------
(* Metadata that are not closed.                                           *)

\* where the metadata of the run start: behind the placeholder
MetaStart == Len(SQ_PHOLDER_START) + 1 + Len(SQ_PHOLDER_STOP)

\* the attempts of parse_inline_metadata on the metadata of the run
MetaAttempts ==
    {i \in 1..Len(LogOf(1)) :
        LogOf(1)[i].prod = "inline_metadata" /\ LogOf(1)[i].from = MetaStart}

\* no closing bracket stands inside the quotes of a value
NoInnerClose == \A i \in 1..Len(gen.pairs) : gen.pairs[i] # "quoted_close"

\* C16: parse_inline_metadata fails, the cursor back where it was entered,
\* when it found no pair and when the linebreak comes before the closing
\* bracket, whatever the pairs read before it; it succeeds only on metadata
\* closed by their bracket.
C16_UnclosedMetadataFails ==
    (gen.kind = "meta" /\ NoInnerClose) =>
        \A i \in MetaAttempts :
            /\ (gen.pairs = <<>> \/ ~gen.closed) =>
                   ~LogOf(1)[i].ok /\ LogOf(1)[i].to = LogOf(1)[i].from
            /\ LogOf(1)[i].ok => gen.closed /\ gen.pairs # <<>>

----------------------------------------------------------------------------
(* The registry of paths.                                                  *)

\* the imports that passed the check of the registry
Registered == {a \in Attempts : AttemptOf(a).res = "ok"}

\* C17: the registry is changed by the check and registration of
\* import_document only, which appends one path that was not in it: it
\* holds the path of the root and one path for every import that succeeded,
\* and no path twice.
C17_RegistryOnlyByImport ==
    /\ \A i, j \in 1..Len(paths) : paths[i] = paths[j] => i = j
    /\ Len(paths) = 1 + Cardinality(Registered)

----------------------------------------------------------------------------
(* Termination.                                                            *)

\* C18: under a fair scheduling every parse returns: the import tasks are
\* one for a resolved path at most, a task waits at its own barrier and for
\* the tasks it spawned only, which are younger than it is, and in the end
\* every thread has ended, every task that entered its parse having returned
\* from it, the root with them.
C18_EveryParseReturns ==
    /\ [](/\ \A t, u \in Tasks \ {1} : tasks[t].path = tasks[u].path => t = u
          /\ Len(tasks) - 1 <= Cardinality(DOMAIN fs)
          /\ \A t \in Tasks \ {1} : tasks[t].parent \in 1..(t - 1))
    /\ <>(AllExited /\ \A t \in Tasks : tasks[t].panicked \/ Returned(t))

\* the diamond has been parsed to the end: D below B or C, and every task
\* has returned
C18_Witness ==
    /\ gen.edges = DiamondEdges /\ Len(tasks) = 4
    /\ \A t \in Tasks : Returned(t) /\ tasks[t].pc = "exit"
    /\ \E t \in Tasks : tasks[t].parent \notin {0, 1}

----------------------------------------------------------------------------
(* The nesting and the stack of the open sections.                         *)

\* the nesting is the top of the stack, 0 for the empty stack, and the stack
\* is increasing from the bottom to the top
NestingIsTop(nesting, sections) ==
    /\ nesting = IF sections # <<>> THEN Last(sections) ELSE 0
    /\ Increasing(sections)

\* C19: when a production is entered and when it is left the nesting is the
\* top of the stack of the open sections and the stack is strictly
\* increasing; a call of parse_section, successful or not, leaves the stack
\* and the nesting as it found them; a parse that has returned has left the
\* stack empty and the nesting 0.
C19_NestingIsTopOfStack ==
    \A t \in Tasks :
        /\ \A i \in 1..Len(LogOf(t)) :
              /\ NestingIsTop(LogOf(t)[i].nesting_in, LogOf(t)[i].sections_in)
              /\ NestingIsTop(LogOf(t)[i].nesting_out, LogOf(t)[i].sections_out)
              /\ LogOf(t)[i].prod = "section" =>
                     /\ LogOf(t)[i].sections_out = LogOf(t)[i].sections_in
                     /\ LogOf(t)[i].nesting_out = LogOf(t)[i].nesting_in
        /\ Returned(t) =>
              tasks[t].parser.sections = <<>> /\ tasks[t].parser.section_nesting = 0

\* a section was parsed inside two open sections, and a header was refused
\* inside an open section; the parse has returned
C19_Witness ==
    /\ Returned(1)
    /\ \E i \in 1..Len(LogOf(1)) :
          /\ LogOf(1)[i].prod = "section" /\ LogOf(1)[i].ok
          /\ Len(LogOf(1)[i].sections_in) = 2
    /\ \E i \in 1..Len(LogOf(1)) :
          /\ LogOf(1)[i].prod = "section" /\ ~LogOf(1)[i].ok
          /\ LogOf(1)[i].nesting_in > 0 /\ LogOf(1)[i].to = LogOf(1)[i].from

----------------------------------------------------------------------------
(* The alternatives of parse_block.                                        *)

\* the order of the alternatives
Alternatives ==
    <<"section", "list", "table", "code_block", "quote", "import", "placeholder",
      "paragraph">>

\* the productions a call called itself, the last one first: the one that
\* returned right before entry i, then the one that returned right before
\* that one was entered, back to the entry of the call
RECURSIVE CalledBefore(_, _, _)
CalledBefore(log, j, start) ==
    IF j <= start THEN <<>>
    ELSE <<j>> \o CalledBefore(log, log[j].start, start)

\* the alternatives the parse_block of entry i tried, in the order it tried
\* them
Tried(log, i) ==
    LET back == CalledBefore(log, i - 1, log[i].start)
    IN  [k \in 1..Len(back) |-> log[back[Len(back) + 1 - k]]]

\* the signal stops the call at its entry
StoppedAtEntry(e) ==
    /\ IsSome(e.signal_in)
    /\ e.signal_in[1] <= e.nesting_in
    /\ e.nesting_in > 0

BlockInOrder(log, i) ==
    LET tried == Tried(log, i)
        n     == Len(tried)
    IN  /\ n <= Len(Alternatives)
        /\ \A k \in 1..n : tried[k].prod = Alternatives[k]
        /\ \A k \in 1..n : k < n => ~tried[k].ok /\ ~IsSome(tried[k].signal_out)
        /\ n = 0 <=> StoppedAtEntry(log[i])
        /\ n > 0 => log[i].ok = tried[n].ok
        /\ (n > 0 /\ ~tried[n].ok) => (n = Len(Alternatives) \/ IsSome(tried[n].signal_out))
        /\ ~log[i].ok => log[i].to = (IF n > 0 THEN tried[n].to ELSE log[i].from)

\* C20: parse_block tries Section, List, Table, CodeBlock, Quote, Import,
\* Placeholder, Paragraph in this order and returns the first that succeeds;
\* an alternative is tried only after all the earlier ones failed; once an
\* alternative has failed with the section_return signal set, or the signal
\* stops the call at its entry, no further alternative is tried and
\* parse_block fails.
C20_AlternativesInOrder ==
    \A t \in Tasks :
        \A i \in 1..Len(LogOf(t)) :
            LogOf(t)[i].prod = "block" => BlockInOrder(LogOf(t), i)

\* one parse_block succeeded with an alternative behind five that failed,
\* one failed right behind a section that set the signal, and one failed
\* right behind an import that set the signal
C20_Witness ==
    LET log == LogOf(1)
        blocks == {i \in 1..Len(log) : log[i].prod = "block"}
    IN  /\ \E i \in blocks : log[i].ok /\ Len(Tried(log, i)) >= 6
        /\ \E i \in blocks : /\ ~log[i].ok /\ Len(Tried(log, i)) = 1
                               /\ IsSome(log[i].signal_out)
        /\ \E i \in blocks : /\ ~log[i].ok /\ Len(Tried(log, i)) = 6
                               /\ IsSome(log[i].signal_out)

\* a parse_block was stopped by the signal at its entry
C20_StoppedAtEntry ==
    \E i \in 1..Len(LogOf(1)) :
        LogOf(1)[i].prod = "block" /\ Tried(LogOf(1), i) = <<>>

----------------------------------------------------------------------------
(* The ordered flag of a list.                                             *)

\* a list of items with markers was parsed
MarkersParsed == gen.kind = "markers" /\ Returned(1)

\* the block at the head of the document
HeadBlock == tasks[1].result[1].elements[1]

\* the items of the text are the items of one List, each with the flag of
\* its own marker
ListOfMarkers ==
    /\ Len(tasks[1].result[1].elements) = 1
    /\ HeadBlock.type = "List"
    /\ Len(HeadBlock.items) = Len(gen.markers)
    /\ \A i \in 1..Len(gen.markers) :
          HeadBlock.items[i].ordered = (gen.markers[i] \in NumericMarkers)

\* C21: the ordered flag of the List parse_list returns is true when its
\* items have numeric markers and false when they have bullet markers.
C21_OrderedIffNumeric ==
    MarkersParsed =>
        /\ ListOfMarkers
        /\ (\A i \in 1..Len(gen.markers) : gen.markers[i] \in NumericMarkers)
               => HeadBlock.ordered
        /\ (\A i \in 1..Len(gen.markers) : gen.markers[i] \notin NumericMarkers)
               => ~HeadBlock.ordered

----------------------------------------------------------------------------
(* The level of a header.                                                  *)

\* the Sections among blocks and below them: <<line, size of the header>>
RECURSIVE SectionSizes(_)
SectionSizes(blocks) ==
    UNION {{<<PosOf(blocks[i].header.line), blocks[i].header.size>>}
               \cup SectionSizes(blocks[i].elements) :
           i \in {j \in 1..Len(blocks) : blocks[j].type = "Section"}}

\* the number of markers of the header of a line of the text
MarkerCount(line) == IF gen.kind = "wide" THEN gen.count ELSE gen.depths[line]

\* C22: the level stored in the header of a Section is the number of markers
\* at the start of its header line, for every number of markers, the
\* numbers of 256 and above of the 8-bit counter included; no header line is
\* accepted with a level that is not the number of its markers.
C22_LevelIsMarkerCount ==
    (gen.kind \in {"headers", "wide"} /\ Returned(1)) =>
        \A s \in SectionSizes(tasks[1].result[1].elements) : s[2] = MarkerCount(s[1])

----------------------------------------------------------------------------
(* An import that fails.                                                   *)

\* the attempts of import_document of a task that failed
FailedAttempts(task) ==
    {i \in 1..Len(task.parser.imports) : task.parser.imports[i].res # "ok"}

\* the Import blocks of the document a task is building or has returned
ImportBlocks(task) ==
    LET blocks == IF IsSome(task.result) THEN task.result[1].elements
                  ELSE task.parser.document.elements
    IN  {i \in 1..Len(blocks) : blocks[i].type = "Import"}

\* a turn of the loop of task t in which import_document failed
FailedImportTurn(t) ==
    /\ tasks[t].pc = "loop"
    /\ Len(tasks'[t].parser.imports) = Len(tasks[t].parser.imports) + 1
    /\ FailedAttempts(tasks'[t]) # FailedAttempts(tasks[t])

\* C23: an import whose resolution fails, because the target is missing or
\* is no regular file or because the resolved path is registered already,
\* leaves the shared state as it was: the registry of paths is not changed,
\* no task is spawned, no clone of the WaitGroup is held, no ImportAnchor is
\* created, and the other tasks are as they were.
C23_FailedImportChangesNothing ==
    [][\A t \in Tasks :
          FailedImportTurn(t) =>
              /\ paths' = paths
              /\ Len(tasks') = Len(tasks)
              /\ \A s \in Tasks \ {t} : tasks'[s] = tasks[s]
              /\ tasks'[t].dropped = tasks[t].dropped
              /\ tasks'[t].anchor = tasks[t].anchor
              /\ ImportBlocks(tasks'[t]) = ImportBlocks(tasks[t])]_vars

\* an import failed on a path that was registered and an import failed on a
\* file that is missing, one of them while the thread of another import had
\* not returned
C23_Witness ==
    /\ \E t \in Tasks : \E i \in FailedAttempts(tasks[t]) :
          tasks[t].parser.imports[i].res = "cyclic import"
    /\ \E t \in Tasks : \E i \in FailedAttempts(tasks[t]) :
          tasks[t].parser.imports[i].res = "file does not exist"
    /\ \E t \in Tasks : \E s \in Tasks \ {t} :
          /\ FailedAttempts(tasks[t]) # {}
          /\ s # 1
          /\ tasks[s].pc \in {"spawned", "loop", "join"}
====
